---- MODULE Spec2Model ----
(***************************************************************************)
(* Resilient access layer of the book tracker: the rate limiter, response  *)
(* cache and gateway of src/lib/google-books.ts and the retry executor and *)
(* circuit breaker of src/lib/retry-logic.ts.                              *)
(*                                                                         *)
(* JavaScript runs one task at a time, so every action below is the code   *)
(* that runs between two suspension points (await of a timer or of the     *)
(* network).  Time is the value of Date.now() in ticks; the durations of   *)
(* the source are scaled down to a few ticks each.                         *)
(***************************************************************************)
EXTENDS Integers, Sequences, FiniteSets, Bags, TLC

\* ---------------------------------------------------------------- bounds
MaxInFlight == 2    \* gateway calls suspended at the same time
NumKeys == 2        \* distinct cache keys
NumVersions == 1    \* distinct payloads the provider may return for a key
MaxTime == 4        \* last clock tick explored
MaxAttemptsOption == 3  \* largest options.maxAttempts handed to withRetry
randomScale == 4    \* Math.random() takes the values 0/4 .. 3/4
MaxStrLen == 1      \* longest query or id string handed to the gateway
MaxDelayAttempts == 6   \* largest options.maxAttempts whose delays are computed

\* durations and sizes of the source, scaled down
maxRequests == 2    \* new RateLimiter(100, 1)          google-books.ts:42
timeWindow == 2     \* timeWindowMinutes * 60 * 1000    google-books.ts:11
waitBuffer == 1     \* "+ 100 // Add small buffer"      google-books.ts:22
CACHE_DURATION == 3 \* 5 * 60 * 1000                    google-books.ts:46
cacheLimit == 2     \* "keep only last 100"             google-books.ts:61
queryLimit == 3     \* query.trim().slice(0, 100)       google-books.ts:152
countLimit == 3     \* Math.min(..., 40)                google-books.ts:153
idLimit == 2        \* bookId.trim().slice(0, 50)       google-books.ts:184
timeout == 2        \* CircuitBreaker(3, 60000, 30000)  retry-logic.ts:220

\* ------------------------------------------------------ program constants
failureThreshold == 3   \* CircuitBreaker(3, ...)       retry-logic.ts:220

Keys == 1..NumKeys
Versions == 1..NumVersions

VARIABLES
    now,          \* Date.now()
    requests,     \* RateLimiter.requests
    requestCache, \* the Map requestCache, in insertion order
    cb,           \* googleBooksCircuitBreaker: failures, lastFailureTime, state
    inflight,     \* the bag of suspended gateway calls: where each one waits
    admitted,     \* the admissions of the last timeWindow ticks: when each
                  \* waitForPermission call returned
    fetched,      \* the fetch() calls of the last timeWindow ticks: when each started
    consec,       \* failed execute() completions since the last success
    last,         \* what the last step did to a call: started it, returned
                  \* from it or threw from it
    client        \* who drives the module in this behaviour: the gateway
                  \* functions, or a direct caller of the withRetry family

vars == <<now, requests, requestCache, cb, inflight, admitted, fetched, consec, last, client>>

\* ------------------------------------------------------------- helpers
Min(a, b) == IF a <= b THEN a ELSE b

Max(a, b) == IF a >= b THEN a ELSE b

RECURSIVE Pow(_, _)
Pow(b, e) == IF e <= 0 THEN 1 ELSE b * Pow(b, e - 1)

\* Math.min(...xs) of a non-empty array
RECURSIVE SeqMin(_)
SeqMin(xs) ==
    IF Len(xs) = 1 THEN xs[1] ELSE Min(xs[1], SeqMin(Tail(xs)))

\* ---------------------------------------------------------------- errors
\* An error object: its status and code properties (0 and "undefined" when
\* the property is absent), msg, the words among "network", "timeout",
\* "connection", "Connection", "auth", "unauthorized" that its message
\* contains, and oid, the identity of the object: the attempt that raised it.
NoError == [name |-> "none", status |-> 0, code |-> "undefined", msg |-> {}, oid |-> <<>>]

\* new Error(`API request failed: ${status} ${statusText}`) with .status set
HttpError(st, id) ==
    [name |-> "Error", status |-> st, code |-> "undefined", msg |-> {}, oid |-> id]

\* new RetryableError('Circuit breaker is OPEN', false)
CircuitOpenError(id) ==
    [name |-> "RetryableError", status |-> 0, code |-> "undefined",
     msg |-> {}, oid |-> id]

\* an error whose message contains "connection"
ConnectionError(id) ==
    [name |-> "Error", status |-> 0, code |-> "undefined",
     msg |-> {"connection"}, oid |-> id]

\* what an onRetry callback that throws raises: an error of the caller's own
HookError(id) ==
    [name |-> "HookError", status |-> 0, code |-> "undefined", msg |-> {}, oid |-> id]

\* what one network attempt can fail with: a retryable and a non-retryable
\* response status
FetchErrors(id) == {HttpError(503, id), HttpError(404, id)}

\* what the operation of a direct caller of withRetry can fail with
OperationErrors(id) ==
    {HttpError(503, id), HttpError(404, id), ConnectionError(id), CircuitOpenError(id)}

\* -------------------------------------------------------- retry executor
\* defaultRetryCondition with the client-error test moved to the front
defaultRetryCondition_clientFirst(error) ==
    IF error.status >= 400 /\ error.status < 500 /\ error.status # 429 THEN FALSE
    ELSE IF error.code = "NETWORK_ERROR" \/ "network" \in error.msg THEN TRUE
    ELSE IF error.code = "TIMEOUT" \/ "timeout" \in error.msg THEN TRUE
    ELSE IF error.status >= 500 /\ error.status < 600 THEN TRUE
    ELSE IF error.status = 429 THEN TRUE
    ELSE IF error.code = "ECONNRESET" \/ error.code = "ECONNREFUSED" THEN TRUE
    ELSE IF "connection" \in error.msg \/ "Connection" \in error.msg THEN TRUE
    ELSE IF "auth" \in error.msg \/ "unauthorized" \in error.msg THEN FALSE
    ELSE TRUE

defaultRetryCondition(error) ==
    IF error.code = "NETWORK_ERROR" \/ "network" \in error.msg THEN TRUE
    ELSE IF error.code = "TIMEOUT" \/ "timeout" \in error.msg THEN TRUE
    ELSE IF error.status >= 500 /\ error.status < 600 THEN TRUE
    ELSE IF error.status = 429 THEN TRUE
    ELSE IF error.code = "ECONNRESET" \/ error.code = "ECONNREFUSED" THEN TRUE
    ELSE IF "connection" \in error.msg \/ "Connection" \in error.msg THEN TRUE
    ELSE IF error.status >= 400 /\ error.status < 500 /\ error.status # 429 THEN FALSE
    ELSE IF "auth" \in error.msg \/ "unauthorized" \in error.msg THEN FALSE
    ELSE TRUE

apiRetryCondition(error) ==
    IF error.status = 502 \/ error.status = 503 \/ error.status = 504 THEN TRUE
    ELSE defaultRetryCondition(error)

databaseRetryCondition(error) ==
    IF "connection" \in error.msg \/ "Connection" \in error.msg \/ error.code = "PGRST301"
    THEN TRUE
    ELSE FALSE

\* the retryCondition of a policy
retryCondition(cond, error) ==
    CASE cond = "api" -> apiRetryCondition(error)
      [] cond = "database" -> databaseRetryCondition(error)
      [] OTHER -> defaultRetryCondition(error)

\* The options withRetry runs with.  Delays are in ticks of 1000 ms, the
\* backoffFactor is the fraction factor[1]/factor[2], hook tells whether an
\* onRetry callback was given.
RetryDefaults ==
    [maxAttempts |-> 3, baseDelay |-> 1, maxDelay |-> 10, factor |-> <<2, 1>>,
     cond |-> "default", hook |-> "none"]

\* withRetry(operation, options): the options given, else the defaults
DefaultPolicy(options) == options @@ RetryDefaults

\* withApiRetry(operation, options)
ApiPolicy(options) ==
    [(options @@ [maxAttempts |-> 3, baseDelay |-> 1, maxDelay |-> 8,
                  factor |-> <<2, 1>>, cond |-> "default", hook |-> "none"])
        EXCEPT !.cond = "api"]

\* withDatabaseRetry(operation, options)
DatabasePolicy(options) ==
    [(options @@ [maxAttempts |-> 2, baseDelay |-> 2, maxDelay |-> 5,
                  factor |-> <<3, 2>>, cond |-> "default", hook |-> "none"])
        EXCEPT !.cond = "database"]

\* "const exponentialDelay = Math.min(baseDelay * Math.pow(...), maxDelay)"
exponentialDelay(attempt, base, maxD, factor) ==
    Min((base * Pow(factor[1], attempt - 1)) \div Pow(factor[2], attempt - 1), maxD)

\* calculateDelay with a jitter of up to 100% of the delay
calculateDelay_fullJitter(attempt, base, maxD, factor, rnd) ==
    LET exponential == exponentialDelay(attempt, base, maxD, factor)
        jitter == (exponential * rnd) \div randomScale
    IN  exponential + jitter

\* rnd/randomScale is the value of Math.random()
calculateDelay(attempt, base, maxD, factor, rnd) ==
    LET exponential == exponentialDelay(attempt, base, maxD, factor)
        jitter == (exponential * rnd) \div (10 * randomScale)
    IN  exponential + jitter

\* withRetryCatch with the loop running one attempt too many
withRetryCatch_extraAttempt(attempt, maxAtt, retryable) ==
    IF attempt > maxAtt THEN "break"
    ELSE IF ~retryable THEN "throw"
    ELSE "retry"

\* withRetryCatch without the retryCondition test
withRetryCatch_ignoresPredicate(attempt, maxAtt, retryable) ==
    IF attempt = maxAtt THEN "break" ELSE "retry"

\* the catch block of withRetry: what the loop does with a failed attempt
withRetryCatch(attempt, maxAtt, retryable) ==
    IF attempt = maxAtt THEN "break"
    ELSE IF ~retryable THEN "throw"
    ELSE "retry"

\* ---------------------------------------------------------- rate limiter
filterRequests(reqs, t) == SelectSeq(reqs, LAMBDA time : t - time < timeWindow)

\* waitForPermission with "length > maxRequests"
waitForPermission_offByOne(reqs, t) ==
    LET kept == filterRequests(reqs, t)
        full == Len(kept) > maxRequests
        waitTime == IF full THEN timeWindow - (t - SeqMin(kept)) + waitBuffer ELSE 0
    IN  IF full /\ waitTime > 0
        THEN [requests |-> kept, granted |-> FALSE, waitTime |-> waitTime]
        ELSE [requests |-> Append(kept, t), granted |-> TRUE, waitTime |-> 0]

\* the synchronous part of RateLimiter.waitForPermission
waitForPermission(reqs, t) ==
    LET kept == filterRequests(reqs, t)
        full == Len(kept) >= maxRequests
        waitTime == IF full THEN timeWindow - (t - SeqMin(kept)) + waitBuffer ELSE 0
    IN  IF full /\ waitTime > 0
        THEN [requests |-> kept, granted |-> FALSE, waitTime |-> waitTime]
        ELSE [requests |-> Append(kept, t), granted |-> TRUE, waitTime |-> 0]

\* ------------------------------------------------------- response cache
NoData == [key |-> 0, ver |-> 0]    \* null

Payload(k, v) == [key |-> k, ver |-> v]

\* JavaScript truthiness of a cached payload
Truthy(data) == data # NoData

cacheIndex(c, k) ==
    IF \E i \in 1..Len(c) : c[i].key = k
    THEN CHOOSE i \in 1..Len(c) : c[i].key = k
    ELSE 0

cacheDelete(c, k) == SelectSeq(c, LAMBDA e : e.key # k)

cacheKeys(c) == {c[i].key : i \in 1..Len(c)}

\* getCachedResponse with "<= CACHE_DURATION"
getCachedResponse_inclusive(c, k, t) ==
    LET i == cacheIndex(c, k)
    IN  IF i # 0 /\ t - c[i].timestamp <= CACHE_DURATION
        THEN [data |-> c[i].data, cache |-> c]
        ELSE [data |-> NoData, cache |-> cacheDelete(c, k)]

\* getCachedResponse without "requestCache.delete(key)"
getCachedResponse_keepsExpired(c, k, t) ==
    LET i == cacheIndex(c, k)
    IN  IF i # 0 /\ t - c[i].timestamp < CACHE_DURATION
        THEN [data |-> c[i].data, cache |-> c]
        ELSE [data |-> NoData, cache |-> c]

\* getCachedResponse: the value returned and the map afterwards
getCachedResponse(c, k, t) ==
    LET i == cacheIndex(c, k)
    IN  IF i # 0 /\ t - c[i].timestamp < CACHE_DURATION
        THEN [data |-> c[i].data, cache |-> c]
        ELSE [data |-> NoData, cache |-> cacheDelete(c, k)]

\* oldestIndex with the entries sorted by descending timestamp
oldestIndex_descending(c) ==
    CHOOSE i \in 1..Len(c) :
        \A j \in 1..Len(c) :
            \/ c[i].timestamp > c[j].timestamp
            \/ (c[i].timestamp = c[j].timestamp /\ i <= j)

\* index of the first entry of entries.sort((a, b) => a.timestamp - b.timestamp)
oldestIndex(c) ==
    CHOOSE i \in 1..Len(c) :
        \A j \in 1..Len(c) :
            \/ c[i].timestamp < c[j].timestamp
            \/ (c[i].timestamp = c[j].timestamp /\ i <= j)

\* delete the first n entries of the map sorted by timestamp
RECURSIVE evictOldest(_, _)
evictOldest(c, n) ==
    IF n <= 0 \/ Len(c) = 0 THEN c
    ELSE evictOldest(cacheDelete(c, c[oldestIndex(c)].key), n - 1)

setCachedResponse(c, k, data, t) ==
    LET i == cacheIndex(c, k)
        entry == [key |-> k, data |-> data, timestamp |-> t]
        put == IF i # 0 THEN [c EXCEPT ![i] = entry] ELSE Append(c, entry)
    IN  IF Len(put) > cacheLimit THEN evictOldest(put, Len(put) - cacheLimit) ELSE put

\* ------------------------------------------------------ circuit breaker
\* breakerEnter that moves to HALF_OPEN without looking at the clock
breakerEnter_noCooldown(b, t) ==
    IF b.state = "OPEN"
    THEN [cb |-> [b EXCEPT !.state = "HALF_OPEN"], rejected |-> FALSE]
    ELSE [cb |-> b, rejected |-> FALSE]

\* breakerEnter whose rejection restarts the cooldown
breakerEnter_restartsCooldown(b, t) ==
    IF b.state = "OPEN"
    THEN IF t - b.lastFailureTime < timeout
         THEN [cb |-> [b EXCEPT !.lastFailureTime = t], rejected |-> TRUE]
         ELSE [cb |-> [b EXCEPT !.state = "HALF_OPEN"], rejected |-> FALSE]
    ELSE [cb |-> b, rejected |-> FALSE]

\* the entry test of CircuitBreaker.execute
breakerEnter(b, t) ==
    IF b.state = "OPEN"
    THEN IF t - b.lastFailureTime < timeout
         THEN [cb |-> b, rejected |-> TRUE]
         ELSE [cb |-> [b EXCEPT !.state = "HALF_OPEN"], rejected |-> FALSE]
    ELSE [cb |-> b, rejected |-> FALSE]

\* onSuccess that keeps the failure count
onSuccess_keepsFailures(b) == [b EXCEPT !.state = "CLOSED"]

onSuccess(b) == [b EXCEPT !.failures = 0, !.state = "CLOSED"]

\* onFailure with "failures > failureThreshold"
onFailure_lateOpen(b, t) ==
    LET n == b.failures + 1
    IN  [failures |-> n, lastFailureTime |-> t,
         state |-> IF n > failureThreshold THEN "OPEN" ELSE b.state]

\* onFailure that starts the count again when it opens the breaker
onFailure_resetsOnOpen(b, t) ==
    LET n == b.failures + 1
    IN  [failures |-> IF n >= failureThreshold THEN 0 ELSE n, lastFailureTime |-> t,
         state |-> IF n >= failureThreshold THEN "OPEN" ELSE b.state]

onFailure(b, t) ==
    LET n == b.failures + 1
    IN  [failures |-> n, lastFailureTime |-> t,
         state |-> IF n >= failureThreshold THEN "OPEN" ELSE b.state]

\* ------------------------------------------------------------- the state
\* A call from its first suspension until it returns or throws.  pc is where
\* it waits: "rlWait" the timer of waitForPermission, "fetching" the response
\* (for a direct caller of withRetry: its operation), "backoff" the timer of
\* withRetry.  trial: execute() moved the breaker to HALF_OPEN ("first") or
\* found it there ("extra").  waited: waitForPermission has suspended it.
NewCall(k, policy) ==
    [pc |-> "start", key |-> k, policy |-> policy, attempt |-> 0, invoked |-> 0,
     onRetry |-> 0, lastError |-> NoError, wakeAt |-> 0, trial |-> "no",
     waited |-> FALSE]

\* What a step did to a call.  via: "started" (now suspended), "hit",
\* "network", "fallback" (returned), "rejected", "failed" (threw).  error is
\* what the caller received, raised what the operation raised in this step.
Outcome(c, kind, via, data, error, raised) ==
    [key |-> c.key, policy |-> c.policy, kind |-> kind, via |-> via, data |-> data,
     error |-> error, raised |-> raised, attempt |-> c.attempt,
     invoked |-> c.invoked, onRetry |-> c.onRetry, trial |-> c.trial]

NoOutcome ==
    [key |-> 0, policy |-> RetryDefaults, kind |-> "none", via |-> "none",
     data |-> NoData, error |-> NoError, raised |-> NoError, attempt |-> 0,
     invoked |-> 0, onRetry |-> 0, trial |-> "no"]

Replace(old, new) == (inflight (-) SetToBag({old})) (+) SetToBag({new})

Remove(old) == inflight (-) SetToBag({old})

\* the onRetry option of makeGoogleBooksRequest: console.warn
GatewayPolicy == ApiPolicy([hook |-> "logs"])

Init ==
    /\ now = 0
    /\ requests = <<>>
    /\ requestCache = <<>>
    /\ cb = [failures |-> 0, lastFailureTime |-> 0, state |-> "CLOSED"]
    /\ inflight = EmptyBag
    /\ admitted = <<>>
    /\ fetched = <<>>
    /\ consec = 0
    /\ last = NoOutcome
    /\ client \in {"gateway", "withRetry"}

\* One invocation of the operation handed to withApiRetry, up to its first
\* suspension: waitForPermission, then either the timer of line 26 or fetch.
\* rest is the bag of the other suspended calls.
RunOperation(rest, c) ==
    LET w == waitForPermission(requests, now)
    IN  /\ requests' = w.requests
        /\ IF w.granted
           THEN /\ admitted' = Append(admitted, now)
                /\ fetched' = Append(fetched, now)
                /\ inflight' = rest (+) SetToBag({[c EXCEPT !.pc = "fetching", !.wakeAt = 0]})
           ELSE /\ UNCHANGED <<admitted, fetched>>
                /\ inflight' = rest (+) SetToBag({[c EXCEPT !.pc = "rlWait",
                                                            !.waited = TRUE,
                                                            !.wakeAt = now + w.waitTime]})

\* CatchFallback that remembers the failure under the key
CatchFallback_memoizes(c, cache, error, raised, how) ==
    LET r == getCachedResponse(cache, c.key, now)
    IN  /\ requestCache' = IF Truthy(r.data) THEN r.cache
                            ELSE setCachedResponse(r.cache, c.key, NoData, now)
        /\ last' = IF Truthy(r.data)
                   THEN Outcome(c, "value", "fallback", r.data, error, raised)
                   ELSE Outcome(c, "error", how, NoData, error, raised)

\* The catch block of searchBooks/getBookDetails: the cached fallback, or
\* the error rethrown.
CatchFallback(c, cache, error, raised, how) ==
    LET r == getCachedResponse(cache, c.key, now)
    IN  /\ requestCache' = r.cache
        /\ last' = IF Truthy(r.data)
                   THEN Outcome(c, "value", "fallback", r.data, error, raised)
                   ELSE Outcome(c, "error", how, NoData, error, raised)

\* Call with the breaker consulted before the cache
Call_breakerFirst(k) ==
    /\ client = "gateway"
    /\ BagCardinality(inflight) < MaxInFlight
    /\ LET c == NewCall(k, GatewayPolicy)
           hit == getCachedResponse(requestCache, k, now)
           be == breakerEnter(cb, now)
           c1 == [c EXCEPT !.attempt = 1, !.invoked = 1]
       IN  IF be.rejected
           THEN /\ last' = Outcome(c, "error", "rejected", NoData, CircuitOpenError(0), NoError)
                /\ UNCHANGED <<requests, requestCache, cb, inflight, admitted, fetched>>
           ELSE IF Truthy(hit.data)
           THEN /\ last' = Outcome(c, "value", "hit", hit.data, NoError, NoError)
                /\ cb' = be.cb
                /\ UNCHANGED <<requests, requestCache, inflight, admitted, fetched>>
           ELSE /\ requestCache' = hit.cache
                /\ cb' = be.cb
                /\ RunOperation(inflight, c1)
                /\ last' = Outcome(c1, "pending", "started", NoData, NoError, NoError)
    /\ UNCHANGED <<now, consec, client>>

\* searchBooks/getBookDetails -> makeGoogleBooksRequest, up to the first
\* suspension of the call.
Call(k) ==
    /\ client = "gateway"
    /\ BagCardinality(inflight) < MaxInFlight
    /\ LET c == NewCall(k, GatewayPolicy)
           hit == getCachedResponse(requestCache, k, now)
           be == breakerEnter(cb, now)
           c1 == [c EXCEPT !.attempt = 1, !.invoked = 1,
                           !.trial = IF be.cb.state # "HALF_OPEN" THEN "no"
                                     ELSE IF cb.state = "OPEN" THEN "first"
                                     ELSE "extra"]
       IN  IF Truthy(hit.data)
           THEN /\ last' = Outcome(c, "value", "hit", hit.data, NoError, NoError)
                /\ requestCache' = hit.cache
                /\ UNCHANGED <<requests, cb, inflight, admitted, fetched>>
           ELSE IF be.rejected
           THEN /\ CatchFallback(c, hit.cache, CircuitOpenError(0), NoError, "rejected")
                /\ cb' = be.cb
                /\ UNCHANGED <<requests, inflight, admitted, fetched>>
           ELSE /\ requestCache' = hit.cache
                /\ cb' = be.cb
                /\ RunOperation(inflight, c1)
                /\ last' = Outcome(c1, "pending", "started", NoData, NoError, NoError)
    /\ UNCHANGED <<now, consec, client>>

\* ------------------------------------------------- the gateway's inputs
\* The values a caller passes as query or bookId: strings of blanks and
\* letters, null, and a non-zero number.
Chars == {" ", "a"}

Strings == UNION {[1..m -> Chars] : m \in 0..MaxStrLen}

Values ==
    {[type |-> "string", text |-> t] : t \in Strings}
    \cup {[type |-> "null", text |-> <<>>], [type |-> "number", text |-> <<>>]}

RECURSIVE trimStart(_)
trimStart(t) == IF Len(t) > 0 /\ Head(t) = " " THEN trimStart(Tail(t)) ELSE t

RECURSIVE trimEnd(_)
trimEnd(t) ==
    IF Len(t) > 0 /\ t[Len(t)] = " " THEN trimEnd(SubSeq(t, 1, Len(t) - 1)) ELSE t

\* String.prototype.trim
trim(t) == trimEnd(trimStart(t))

\* !value
Falsy(value) == value.type = "null" \/ (value.type = "string" /\ Len(value.text) = 0)

\* { totalItems: 0, items: [] }
EmptyResult == [key |-> 0, ver |-> 0, totalItems |-> 0]

\* new Error('Invalid book ID provided')
InvalidIdError ==
    [name |-> "Error", status |-> 0, code |-> "undefined", msg |-> {}, oid |-> "invalid"]

\* the TypeError of calling trim on a value that has no such method
TrimTypeError ==
    [name |-> "TypeError", status |-> 0, code |-> "undefined", msg |-> {}, oid |-> "trim"]

\* a call that ends before makeGoogleBooksRequest: what it returned or threw
EarlyReturn(kind, via, data, error) ==
    /\ last' = [NoOutcome EXCEPT !.kind = kind, !.via = via, !.data = data, !.error = error]
    /\ UNCHANGED <<now, requests, requestCache, cb, inflight, admitted, fetched, consec, client>>

\* searchBooks(query): the blank-query return, else the request under the
\* key built from the query
searchBooks(query) ==
    /\ client = "gateway"
    /\ IF query.type # "string"
       THEN EarlyReturn("error", "typeError", NoData, TrimTypeError)
       ELSE IF Len(trim(query.text)) = 0
       THEN EarlyReturn("value", "empty", EmptyResult, NoError)
       ELSE \E k \in Keys : Call(k)

\* getBookDetails without the !bookId test
getBookDetails_acceptsEmpty(bookId) ==
    /\ client = "gateway"
    /\ IF bookId.type # "string"
       THEN EarlyReturn("error", "invalid", NoData, InvalidIdError)
       ELSE \E k \in Keys : Call(k)

\* getBookDetails(bookId): the validation throw, else the request under the
\* key built from the id
getBookDetails(bookId) ==
    /\ client = "gateway"
    /\ IF Falsy(bookId) \/ bookId.type # "string"
       THEN EarlyReturn("error", "invalid", NoData, InvalidIdError)
       ELSE \E k \in Keys : Call(k)

\* the timer of waitForPermission fires: "return this.waitForPermission()"
RlWake(c) ==
    /\ c.pc = "rlWait"
    /\ now >= c.wakeAt
    /\ RunOperation(Remove(c), c)
    /\ last' = NoOutcome
    /\ UNCHANGED <<now, requestCache, cb, consec, client>>

\* fetch resolves with an ok response: the payload is cached and returned
\* through withRetry and CircuitBreaker.execute (onSuccess) to the caller
ResponseOk(c, v) ==
    /\ client = "gateway"
    /\ c.pc = "fetching"
    /\ LET data == Payload(c.key, v)
       IN  /\ requestCache' = setCachedResponse(requestCache, c.key, data, now)
           /\ last' = Outcome(c, "value", "network", data, NoError, NoError)
    /\ inflight' = Remove(c)
    /\ cb' = onSuccess(cb)
    /\ consec' = 0
    /\ UNCHANGED <<now, requests, admitted, fetched, client>>

\* withRetryFailed that never calls the onRetry hook
withRetryFailed_skipsHook(c, error, rnd) ==
    LET c1 == [c EXCEPT !.lastError = error]
        decision == withRetryCatch(c1.attempt, c1.policy.maxAttempts,
                                   retryCondition(c1.policy.cond, error))
        delay == calculateDelay(c1.attempt, c1.policy.baseDelay, c1.policy.maxDelay,
                                c1.policy.factor, rnd)
    IN  IF decision = "retry"
        THEN [retry |-> TRUE, thrown |-> NoError,
              call |-> [c1 EXCEPT !.pc = "backoff", !.wakeAt = now + delay]]
        ELSE [retry |-> FALSE, call |-> c1,
              thrown |-> IF decision = "break" THEN c1.lastError ELSE error]

\* The catch block of withRetry for the error an attempt of call c raised:
\* lastError = error, then break, throw or the backoff timer.  The result
\* is the call afterwards and, when withRetry gives up, the error it throws.
\* onRetry is called outside any try block: what it throws leaves withRetry.
withRetryFailed(c, error, rnd) ==
    LET c1 == [c EXCEPT !.lastError = error]
        decision == withRetryCatch(c1.attempt, c1.policy.maxAttempts,
                                   retryCondition(c1.policy.cond, error))
        delay == calculateDelay(c1.attempt, c1.policy.baseDelay, c1.policy.maxDelay,
                                c1.policy.factor, rnd)
    IN  IF decision = "retry" /\ c1.policy.hook = "throws"
        THEN [retry |-> FALSE, thrown |-> HookError(c1.attempt),
              call |-> [c1 EXCEPT !.onRetry = @ + 1]]
        ELSE IF decision = "retry"
        THEN [retry |-> TRUE, thrown |-> NoError,
              call |-> [c1 EXCEPT !.pc = "backoff",
                                  !.onRetry = IF c1.policy.hook = "none" THEN @ ELSE @ + 1,
                                  !.wakeAt = now + delay]]
        ELSE [retry |-> FALSE, call |-> c1,
              thrown |-> IF decision = "break" THEN c1.lastError ELSE error]

\* ResponseError whose execute() reports the circuit-open error when the
\* failure opens the breaker
ResponseError_reportsOpen(c, error, rnd) ==
    /\ client = "gateway"
    /\ c.pc = "fetching"
    /\ LET r == withRetryFailed(c, error, rnd)
       IN  IF r.retry
           THEN /\ inflight' = Replace(c, r.call)
                /\ last' = NoOutcome
                /\ UNCHANGED <<requestCache, cb, consec>>
           ELSE /\ rnd = 0
                /\ cb' = onFailure(cb, now)
                /\ consec' = consec + 1
                /\ inflight' = Remove(c)
                /\ CatchFallback(r.call, requestCache,
                                 IF cb'.state = "OPEN" THEN CircuitOpenError(0) ELSE r.thrown,
                                 error, "failed")
    /\ UNCHANGED <<now, requests, admitted, fetched, client>>

\* the attempt throws: the catch block of withRetry, and when it gives up
\* CircuitBreaker.execute's catch (onFailure) and the gateway's catch
ResponseError(c, error, rnd) ==
    /\ client = "gateway"
    /\ c.pc = "fetching"
    /\ LET r == withRetryFailed(c, error, rnd)
       IN  IF r.retry
           THEN /\ inflight' = Replace(c, r.call)
                /\ last' = NoOutcome
                /\ UNCHANGED <<requestCache, cb, consec>>
           ELSE /\ rnd = 0
                /\ cb' = onFailure(cb, now)
                /\ consec' = consec + 1
                /\ inflight' = Remove(c)
                /\ CatchFallback(r.call, requestCache, r.thrown, error, "failed")
    /\ UNCHANGED <<now, requests, admitted, fetched, client>>

\* BackoffWake whose attempt goes to fetch without waitForPermission
BackoffWake_skipsLimiter(c) ==
    /\ client = "gateway"
    /\ c.pc = "backoff"
    /\ now >= c.wakeAt
    /\ fetched' = Append(fetched, now)
    /\ inflight' = Replace(c, [c EXCEPT !.pc = "fetching", !.wakeAt = 0,
                                        !.attempt = @ + 1, !.invoked = @ + 1])
    /\ last' = NoOutcome
    /\ UNCHANGED <<now, requests, admitted, requestCache, cb, consec, client>>

\* the backoff timer of withRetry fires: the next attempt
BackoffWake(c) ==
    /\ client = "gateway"
    /\ c.pc = "backoff"
    /\ now >= c.wakeAt
    /\ RunOperation(Remove(c), [c EXCEPT !.attempt = @ + 1, !.invoked = @ + 1])
    /\ last' = NoOutcome
    /\ UNCHANGED <<now, requestCache, cb, consec, client>>

\* getRateLimitStatus(): rateLimiter.getRequestCount() and requestCache.size.
\* The snapshot it returns goes to the caller and is not kept.
GetRateLimitStatus ==
    /\ client = "gateway"
    /\ requests' = filterRequests(requests, now)
    /\ last' = NoOutcome
    /\ UNCHANGED <<now, requestCache, cb, inflight, admitted, fetched, consec, client>>

\* googleBooksCircuitBreaker.getState()
GetState ==
    /\ client = "gateway"
    /\ last' = NoOutcome
    /\ UNCHANGED <<now, requests, requestCache, cb, inflight, admitted, fetched, consec, client>>

\* the clock advances
Tick ==
    /\ now < MaxTime
    /\ now' = now + 1
    /\ admitted' = SelectSeq(admitted, LAMBDA t : t > now' - timeWindow)
    /\ fetched' = SelectSeq(fetched, LAMBDA t : t > now' - timeWindow)
    /\ last' = NoOutcome
    /\ UNCHANGED <<requests, requestCache, cb, inflight, consec, client>>

\* ---------------------------------------- direct callers of withRetry
\* the options a direct caller passes
RetryOptions ==
    {[hook |-> h] : h \in {"none", "logs"}}
    \cup {[maxAttempts |-> m, hook |-> h] : m \in 1..MaxAttemptsOption, h \in {"none", "logs"}}

RetryPolicies ==
    {DefaultPolicy(o) : o \in RetryOptions}
    \cup {ApiPolicy(o) : o \in RetryOptions}
    \cup {DatabasePolicy(o) : o \in RetryOptions}

\* withRetry / withApiRetry / withDatabaseRetry called with an operation:
\* the first attempt is started
WithRetry(policy) ==
    /\ client = "withRetry"
    /\ inflight = EmptyBag
    /\ LET c == [NewCall(0, policy) EXCEPT !.pc = "fetching", !.attempt = 1, !.invoked = 1]
       IN  /\ inflight' = SetToBag({c})
           /\ last' = Outcome(c, "pending", "started", NoData, NoError, NoError)
    /\ UNCHANGED <<now, requests, requestCache, cb, admitted, fetched, consec, client>>

\* the operation resolves: "return await operation()"
OperationOk(c, v) ==
    /\ client = "withRetry"
    /\ c.pc = "fetching"
    /\ inflight' = Remove(c)
    /\ last' = Outcome(c, "value", "returned", Payload(0, v), NoError, NoError)
    /\ UNCHANGED <<now, requests, requestCache, cb, admitted, fetched, consec, client>>

\* the operation rejects: the catch block of withRetry
OperationError(c, error, rnd) ==
    /\ client = "withRetry"
    /\ c.pc = "fetching"
    /\ LET r == withRetryFailed(c, error, rnd)
       IN  IF r.retry
           THEN /\ inflight' = Replace(c, r.call)
                /\ last' = NoOutcome
           ELSE /\ rnd = 0
                /\ inflight' = Remove(c)
                /\ last' = Outcome(r.call, "error", "threw", NoData, r.thrown, error)
    /\ UNCHANGED <<now, requests, requestCache, cb, admitted, fetched, consec, client>>

\* the backoff timer fires: the next iteration of the loop
RetryWake(c) ==
    /\ client = "withRetry"
    /\ c.pc = "backoff"
    /\ now >= c.wakeAt
    /\ inflight' = Replace(c, [c EXCEPT !.pc = "fetching", !.wakeAt = 0,
                                        !.attempt = @ + 1, !.invoked = @ + 1])
    /\ last' = NoOutcome
    /\ UNCHANGED <<now, requests, requestCache, cb, admitted, fetched, consec, client>>

\* ------------------------------------ callers whose onRetry may throw
\* Direct callers of the withRetry family that pass any callback: none, one
\* that returns, one that throws.
HookOptions ==
    {[hook |-> h] : h \in {"none", "logs", "throws"}}
    \cup {[maxAttempts |-> m, hook |-> h] :
              m \in 1..MaxAttemptsOption, h \in {"none", "logs", "throws"}}

HookPolicies ==
    {DefaultPolicy(o) : o \in HookOptions}
    \cup {ApiPolicy(o) : o \in HookOptions}
    \cup {DatabasePolicy(o) : o \in HookOptions}

HookInit ==
    /\ now = 0
    /\ requests = <<>>
    /\ requestCache = <<>>
    /\ cb = [failures |-> 0, lastFailureTime |-> 0, state |-> "CLOSED"]
    /\ inflight = EmptyBag
    /\ admitted = <<>>
    /\ fetched = <<>>
    /\ consec = 0
    /\ last = NoOutcome
    /\ client = "withRetry"

HookNext ==
    \/ \E policy \in HookPolicies : WithRetry(policy)
    \/ \E c \in BagToSet(inflight), v \in Versions : OperationOk(c, v)
    \/ \E c \in BagToSet(inflight), rnd \in 0..(randomScale - 1) :
           \E error \in OperationErrors(c.attempt) : OperationError(c, error, rnd)
    \/ \E c \in BagToSet(inflight) : RetryWake(c)
    \/ Tick

HookSpec == HookInit /\ [][HookNext]_vars

\* ------------------------------------------- the cache functions alone
\* the keys handed to the cache functions: one more than the map keeps
CacheKeys == 1..(cacheLimit + 1)

\* the entries of a map
Entries(c) == {c[i] : i \in DOMAIN c}

\* what a call of a cache function did: its key, the value it stored or
\* returned, the size of the map before the call, whether the key was in
\* it, and the entries the call removed or replaced
CacheEvent(via, k, data, after) ==
    [NoOutcome EXCEPT !.key = k, !.kind = "value", !.via = via, !.data = data]
        @@ [size |-> Len(requestCache), known |-> k \in cacheKeys(requestCache),
            removed |-> Entries(requestCache) \ Entries(after)]

CacheInit ==
    /\ now = 0
    /\ requests = <<>>
    /\ requestCache = <<>>
    /\ cb = [failures |-> 0, lastFailureTime |-> 0, state |-> "CLOSED"]
    /\ inflight = EmptyBag
    /\ admitted = <<>>
    /\ fetched = <<>>
    /\ consec = 0
    /\ last = NoOutcome
    /\ client = "cache"

\* setCachedResponse(key, data)
CachePut(k, v) ==
    /\ client = "cache"
    /\ requestCache' = setCachedResponse(requestCache, k, Payload(k, v), now)
    /\ last' = CacheEvent("put", k, Payload(k, v), requestCache')
    /\ UNCHANGED <<now, requests, cb, inflight, admitted, fetched, consec, client>>

\* getCachedResponse(key)
CacheGet(k) ==
    /\ client = "cache"
    /\ LET r == getCachedResponse(requestCache, k, now)
       IN  /\ requestCache' = r.cache
           /\ last' = CacheEvent("get", k, r.data, r.cache)
    /\ UNCHANGED <<now, requests, cb, inflight, admitted, fetched, consec, client>>

CacheNext ==
    \/ \E k \in CacheKeys, v \in Versions : CachePut(k, v)
    \/ \E k \in CacheKeys : CacheGet(k)
    \/ Tick

CacheSpec == CacheInit /\ [][CacheNext]_vars

\* ------------------------------------------- the rate limiter alone
\* Callers of rateLimiter.waitForPermission().  Finitely many contend: calls
\* begin until ArrivalEnd, and the clock runs on until LimiterHorizon, the
\* time by which MaxInFlight suspended callers can each have slept through a
\* window once per caller ahead of them.
ArrivalEnd == timeWindow + waitBuffer

LimiterHorizon == ArrivalEnd + MaxInFlight * (timeWindow + waitBuffer)

LimiterInit ==
    /\ now = 0
    /\ requests = <<>>
    /\ requestCache = <<>>
    /\ cb = [failures |-> 0, lastFailureTime |-> 0, state |-> "CLOSED"]
    /\ inflight = EmptyBag
    /\ admitted = <<>>
    /\ fetched = <<>>
    /\ consec = 0
    /\ last = NoOutcome
    /\ client = "limiter"

\* waitForPermission() returned to call c, which slept sleeps times
LimiterEvent(c, sleeps) ==
    Outcome(c, "value", "admitted", NoData, NoError, NoError) @@ [sleeps |-> sleeps]

\* One run of waitForPermission for call c, up to its return or to the
\* timer of line 26.  rest is the bag of the other suspended callers;
\* c.attempt counts the runs.
LimiterRun(rest, c) ==
    LET w == waitForPermission(requests, now)
    IN  /\ requests' = w.requests
        /\ IF w.granted
           THEN /\ admitted' = Append(admitted, now)
                /\ inflight' = rest
                /\ last' = LimiterEvent(c, c.attempt)
           ELSE /\ admitted' = admitted
                /\ inflight' = rest (+) SetToBag({[c EXCEPT !.pc = "rlWait",
                                                            !.waited = TRUE,
                                                            !.attempt = @ + 1,
                                                            !.wakeAt = now + w.waitTime]})
                /\ last' = NoOutcome

\* a caller awaits rateLimiter.waitForPermission()
LimiterCall ==
    /\ client = "limiter"
    /\ now <= ArrivalEnd
    /\ BagCardinality(inflight) < MaxInFlight
    /\ LimiterRun(inflight, NewCall(0, RetryDefaults))
    /\ UNCHANGED <<now, requestCache, cb, fetched, consec, client>>

\* LimiterWake with the clock value read before the sleep
LimiterWake_staleClock(c) ==
    /\ client = "limiter"
    /\ c.pc = "rlWait"
    /\ now >= c.wakeAt
    /\ LET w == waitForPermission(requests, c.wakeAt - timeWindow - waitBuffer)
       IN  /\ requests' = w.requests
           /\ IF w.granted
              THEN /\ admitted' = Append(admitted, now)
                   /\ inflight' = Remove(c)
                   /\ last' = LimiterEvent(c, c.attempt)
              ELSE /\ admitted' = admitted
                   /\ inflight' = inflight
                   /\ last' = NoOutcome
    /\ UNCHANGED <<now, requestCache, cb, fetched, consec, client>>

\* the timer fires: "return this.waitForPermission()"
LimiterWake(c) ==
    /\ client = "limiter"
    /\ c.pc = "rlWait"
    /\ now >= c.wakeAt
    /\ LimiterRun(Remove(c), c)
    /\ UNCHANGED <<now, requestCache, cb, fetched, consec, client>>

\* the clock advances
LimiterTick ==
    /\ client = "limiter"
    /\ now < LimiterHorizon
    /\ now' = now + 1
    /\ admitted' = SelectSeq(admitted, LAMBDA t : t > now' - timeWindow)
    /\ last' = NoOutcome
    /\ UNCHANGED <<requests, requestCache, cb, inflight, fetched, consec, client>>

LimiterNext ==
    \/ LimiterCall
    \/ \E c \in BagToSet(inflight) : LimiterWake(c)
    \/ LimiterTick

\* time advances and a timer that is due fires
LimiterSpec ==
    /\ LimiterInit
    /\ [][LimiterNext]_vars
    /\ WF_vars(LimiterTick)
    /\ WF_vars(\E c \in BagToSet(inflight) : LimiterWake(c))

\* ------------------------------------- callers that pass any value
\* The gateway called with arbitrary values, from the states a running
\* program can be in when no call is suspended (tick 0 is then an instant of
\* the run, not the load of the module): the first or the last clock value,
\* the timestamps of admissions
\* less than a window apart, a cache of successful payloads, and a breaker
\* that is CLOSED below the threshold or OPEN at it.  Cache entries and the
\* last failure are as old as the clock allows, or of this instant.
RequestLists(t) ==
    {r \in UNION {[1..n -> 0..t] : n \in 0..maxRequests} :
        /\ \A i \in 1..(Len(r) - 1) : r[i] <= r[i + 1]
        /\ Len(r) > 0 => r[Len(r)] - r[1] < timeWindow}

CacheContents(t) ==
    {c \in UNION {[1..n -> [key : Keys, data : {Payload(k, 1) : k \in Keys},
                            timestamp : {0, t}]] : n \in 0..Min(cacheLimit, NumKeys)} :
        /\ \A i \in DOMAIN c : c[i].data.key = c[i].key
        /\ \A i, j \in DOMAIN c : i < j => c[i].key < c[j].key}

BreakerStates(t) ==
    {[failures |-> 0, lastFailureTime |-> 0, state |-> "CLOSED"]}
    \cup {[failures |-> f, lastFailureTime |-> l,
           state |-> IF f >= failureThreshold THEN "OPEN" ELSE "CLOSED"] :
              f \in 1..failureThreshold, l \in {0, t}}

InputInit ==
    /\ now \in {0, MaxTime}
    /\ requests \in RequestLists(now)
    /\ requestCache \in CacheContents(now)
    /\ cb \in BreakerStates(now)
    /\ inflight = EmptyBag
    /\ admitted = SelectSeq(requests, LAMBDA t : t > now - timeWindow)
    /\ fetched = admitted
    /\ consec = cb.failures
    /\ last = NoOutcome
    /\ client = "gateway"

InputNext ==
    \/ \E query \in Values : searchBooks(query)
    \/ \E bookId \in Values : getBookDetails(bookId)

InputSpec == InputInit /\ [][InputNext]_vars

\* ------------------------------------------- the retry predicates alone
\* The errors handed to the predicates: every combination of a status
\* (0: none) around the edges of the 4xx and 5xx ranges, a code, and the
\* classifier words the message contains ("unauthorized" contains "auth").
Statuses == {0, 200, 399, 400, 401, 404, 428, 429, 430, 499, 500, 503, 599, 600}

ErrorCodes ==
    {"undefined", "NETWORK_ERROR", "TIMEOUT", "ECONNRESET", "ECONNREFUSED", "PGRST301", "OTHER"}

Messages ==
    {m \in SUBSET {"network", "timeout", "connection", "Connection", "auth", "unauthorized"} :
        "unauthorized" \in m => "auth" \in m}

AnyErrors ==
    {[name |-> "Error", status |-> st, code |-> cd, msg |-> m, oid |-> 0] :
        st \in Statuses, cd \in ErrorCodes, m \in Messages}

ClassifyInit ==
    /\ now = 0
    /\ requests = <<>>
    /\ requestCache = <<>>
    /\ cb = [failures |-> 0, lastFailureTime |-> 0, state |-> "CLOSED"]
    /\ inflight = EmptyBag
    /\ admitted = <<>>
    /\ fetched = <<>>
    /\ consec = 0
    /\ last \in {[NoOutcome EXCEPT !.via = "caught", !.error = error] : error \in AnyErrors}
    /\ client = "classify"

\* the three predicates applied to the error caught: what each returned
Classify ==
    /\ client = "classify"
    /\ last.via = "caught"
    /\ last' = [last EXCEPT !.kind = "value", !.via = "classified"]
                   @@ [default |-> defaultRetryCondition(last.error),
                       api |-> apiRetryCondition(last.error),
                       database |-> databaseRetryCondition(last.error)]
    /\ UNCHANGED <<now, requests, requestCache, cb, inflight, admitted, fetched, consec, client>>

ClassifyNext == Classify

ClassifySpec == ClassifyInit /\ [][ClassifyNext]_vars

\* ------------------------------------------- the backoff delays alone
\* The delays of one withRetry call whose attempts all fail retryably, in
\* milliseconds as in the source: the three policies, with the maxAttempts
\* option up to MaxDelayAttempts.
Millis(policy) == [policy EXCEPT !.baseDelay = @ * 1000, !.maxDelay = @ * 1000]

DelayOptions == {[hook |-> "none"]} \cup {[maxAttempts |-> m] : m \in 1..MaxDelayAttempts}

DelayPolicies ==
    {Millis(DefaultPolicy(o)) : o \in DelayOptions}
    \cup {Millis(ApiPolicy(o)) : o \in DelayOptions}
    \cup {Millis(DatabasePolicy(o)) : o \in DelayOptions}

\* the wait after failed attempt k of a call: the value of delay, the value
\* of exponentialDelay in it, and the exponentialDelay of the wait before
DelayEvent(policy, k, delay, exponential, before) ==
    [NoOutcome EXCEPT !.policy = policy, !.kind = "pending", !.via = "wait", !.attempt = k]
        @@ [delay |-> delay, exponentialDelay |-> exponential, before |-> before]

DelayInit ==
    /\ now = 0
    /\ requests = <<>>
    /\ requestCache = <<>>
    /\ cb = [failures |-> 0, lastFailureTime |-> 0, state |-> "CLOSED"]
    /\ inflight = EmptyBag
    /\ admitted = <<>>
    /\ fetched = <<>>
    /\ consec = 0
    /\ last \in {[DelayEvent(policy, 0, 0, 0, 0) EXCEPT !.via = "started"] :
                    policy \in DelayPolicies}
    /\ client = "delay"

\* attempt last.attempt + 1 fails retryably and is not the last one: lines
\* 58-67, "await new Promise(resolve => setTimeout(resolve, delay))"
DelayWait(rnd) ==
    /\ client = "delay"
    /\ LET policy == last.policy
           attempt == last.attempt + 1
       IN  /\ withRetryCatch(attempt, policy.maxAttempts, TRUE) = "retry"
           /\ last' = DelayEvent(policy, attempt,
                                 calculateDelay(attempt, policy.baseDelay, policy.maxDelay,
                                                policy.factor, rnd),
                                 exponentialDelay(attempt, policy.baseDelay, policy.maxDelay,
                                                  policy.factor),
                                 last.exponentialDelay)
    /\ UNCHANGED <<now, requests, requestCache, cb, inflight, admitted, fetched, consec, client>>

DelayNext == \E rnd \in 0..(randomScale - 1) : DelayWait(rnd)

DelaySpec == DelayInit /\ [][DelayNext]_vars

\* ------------------------------------------- the request keys alone
\* searchBooks and getBookDetails up to the call of makeGoogleBooksRequest:
\* the cache key and the url they build from their arguments.  The strings
\* are up to two characters longer than the longer cap, the counts reach two
\* beyond both ends of the range.
KeyStrings == UNION {[1..m -> Chars] : m \in 0..(Max(queryLimit, idLimit) + 2)}

KeyCounts == (0 - 1)..(countLimit + 2)

\* String.prototype.slice(0, n)
slice(t, n) == SubSeq(t, 1, Min(Len(t), n))

\* validatedMaxResults without the lower limit
validatedMaxResults_upperOnly(maxResults) == Min(maxResults, countLimit)

\* "Math.min(Math.max(1, maxResults), 40)"
validatedMaxResults(maxResults) == Min(Max(1, maxResults), countLimit)

\* lines 152-158: `search:${sanitizedQuery}:${validatedMaxResults}` and the
\* url with q and maxResults
searchRequest(query, maxResults) ==
    LET sanitizedQuery == slice(trim(query), queryLimit)
        validated == validatedMaxResults(maxResults)
    IN  [cacheKey |-> <<"search", sanitizedQuery, validated>>,
         url |-> <<"volumes?q=", sanitizedQuery, "&maxResults=", validated>>]

\* lines 184-188: `book:${sanitizedBookId}` and the url of the volume
bookRequest(bookId) ==
    LET sanitizedBookId == slice(trim(bookId), idLimit)
    IN  [cacheKey |-> <<"book", sanitizedBookId>>,
         url |-> <<"volumes/", sanitizedBookId>>]

\* what a call did with its arguments: returned early, or went on to
\* makeGoogleBooksRequest(url, cacheKey)
KeyEvent(kind, via, op, input, count, request) ==
    [NoOutcome EXCEPT !.kind = kind, !.via = via]
        @@ [op |-> op, input |-> input, count |-> count,
            cacheKey |-> request.cacheKey, url |-> request.url]

NoRequest == [cacheKey |-> <<>>, url |-> <<>>]

KeyInit ==
    /\ now = 0
    /\ requests = <<>>
    /\ requestCache = <<>>
    /\ cb = [failures |-> 0, lastFailureTime |-> 0, state |-> "CLOSED"]
    /\ inflight = EmptyBag
    /\ admitted = <<>>
    /\ fetched = <<>>
    /\ consec = 0
    /\ last = KeyEvent("none", "none", "none", <<>>, 0, NoRequest)
    /\ client = "keys"

\* searchBooks(query, maxResults) with a string and an integer
KeySearch(query, maxResults) ==
    /\ client = "keys"
    /\ last' = IF Len(trim(query)) = 0
               THEN KeyEvent("value", "empty", "search", query, maxResults, NoRequest)
               ELSE KeyEvent("pending", "request", "search", query, maxResults,
                             searchRequest(query, maxResults))
    /\ UNCHANGED <<now, requests, requestCache, cb, inflight, admitted, fetched, consec, client>>

\* getBookDetails(bookId) with a string
KeyBook(bookId) ==
    /\ client = "keys"
    /\ last' = IF Len(bookId) = 0
               THEN KeyEvent("error", "invalid", "book", bookId, 0, NoRequest)
               ELSE KeyEvent("pending", "request", "book", bookId, 0, bookRequest(bookId))
    /\ UNCHANGED <<now, requests, requestCache, cb, inflight, admitted, fetched, consec, client>>

KeyNext ==
    \/ \E query \in KeyStrings, maxResults \in KeyCounts : KeySearch(query, maxResults)
    \/ \E bookId \in KeyStrings : KeyBook(bookId)

KeySpec == KeyInit /\ [][KeyNext]_vars

\* --------------------------------------------------------- specification
Next ==
    \/ \E k \in Keys : Call(k)
    \/ \E c \in BagToSet(inflight) : RlWake(c)
    \/ \E c \in BagToSet(inflight), v \in Versions : ResponseOk(c, v)
    \/ \E c \in BagToSet(inflight), rnd \in 0..(randomScale - 1) :
           \E error \in FetchErrors(c.attempt) : ResponseError(c, error, rnd)
    \/ \E c \in BagToSet(inflight) : BackoffWake(c)
    \/ \E policy \in RetryPolicies : WithRetry(policy)
    \/ \E c \in BagToSet(inflight), v \in Versions : OperationOk(c, v)
    \/ \E c \in BagToSet(inflight), rnd \in 0..(randomScale - 1) :
           \E error \in OperationErrors(c.attempt) : OperationError(c, error, rnd)
    \/ \E c \in BagToSet(inflight) : RetryWake(c)
    \/ GetRateLimitStatus
    \/ GetState
    \/ Tick

Spec == Init /\ [][Next]_vars

TypeOK ==
    /\ now \in 0..(IF client = "limiter" THEN LimiterHorizon ELSE MaxTime)
    /\ cb.state \in {"CLOSED", "OPEN", "HALF_OPEN"}
    /\ \A c \in BagToSet(inflight) : c.pc \in {"rlWait", "fetching", "backoff"}
    /\ BagCardinality(inflight) <= MaxInFlight
    /\ client \in {"gateway", "withRetry", "cache", "limiter", "classify", "delay", "keys"}

\* ================================================================ claims
InFlight == BagToSet(inflight)

\* the steps that start a gateway call past the cache, or reject it
CallMissed == last.via \in {"started", "rejected"} \/ (last.via = "fallback" /\ last.invoked = 0)

\* C1: no trailing window (t - timeWindow, t] holds more than maxRequests
\* admitted timestamps, whatever the interleaving of the waitForPermission
\* calls.  admitted keeps the admissions of the window that ends now, and
\* every t is the value of now in the states where the clock reads t.
AdmittedIn(t) == {i \in DOMAIN admitted : admitted[i] > t - timeWindow /\ admitted[i] <= t}

C1_WindowNeverExceeded ==
    \A t \in 0..now : Cardinality(AdmittedIn(t)) <= maxRequests

\* a caller that was suspended is admitted into a window that is full again
C1_Witness ==
    /\ Cardinality(AdmittedIn(now)) = maxRequests
    /\ \E c \in InFlight : c.pc = "fetching" /\ c.waited
    /\ admitted[Len(admitted)] = now

\* the step made a gateway call or a withRetry call give up after a failed attempt
GaveUp == last.via \in {"failed", "threw"} \/ (last.via = "fallback" /\ last.invoked > 0)

WithinCooldown == now - cb.lastFailureTime < timeout

\* C2: after failureThreshold consecutive failed execute() calls the breaker
\* is OPEN, and an execute() issued while now - lastFailureTime < timeout
\* raises the circuit-open error without invoking the operation.
C2_OpenAfterThreshold ==
    [][ /\ (consec' >= failureThreshold /\ consec' # consec) => cb'.state = "OPEN"
        /\ (consec >= failureThreshold /\ WithinCooldown /\ CallMissed')
              => /\ last'.via = "rejected"
                 /\ last'.error = CircuitOpenError(0)
                 /\ last'.invoked = 0
                 /\ fetched' = fetched
                 /\ inflight' = inflight ]_vars

\* the call after the failureThreshold-th failure in a row is rejected
C2_Witness ==
    /\ last.via = "rejected"
    /\ consec = failureThreshold
    /\ cb.state = "OPEN"

\* C3: with the breaker OPEN and timeout elapsed, the next execute() moves
\* it to HALF_OPEN and invokes the operation; if that trial succeeds the
\* breaker is CLOSED with failures = 0, if it fails the breaker is OPEN
\* again with lastFailureTime the time of the failure.
C3_TrialDecides ==
    [][ /\ (cb.state = "OPEN" /\ ~WithinCooldown /\ CallMissed')
              => (cb'.state = "HALF_OPEN" /\ last'.via = "started" /\ last'.trial = "first")
        /\ (last'.trial = "first" /\ last'.via = "network")
              => (cb'.state = "CLOSED" /\ cb'.failures = 0)
        /\ (last'.trial = "first" /\ GaveUp')
              => (cb'.state = "OPEN" /\ cb'.lastFailureTime = now') ]_vars

\* the suspended calls that execute() let through a HALF_OPEN breaker
Trials == {c \in InFlight : c.trial # "no"}

\* C4: while the breaker is HALF_OPEN at most one trial invocation of the
\* operation is in flight, whatever the interleaving of the execute() calls.
C4_OneTrial ==
    cb.state = "HALF_OPEN" =>
        /\ Cardinality(Trials) <= 1
        /\ \A c \in Trials : CopiesIn(c, inflight) = 1

\* C5: each gateway call that fails terminally adds exactly one to the
\* failure count, however many attempts it made; three such calls in a row
\* leave the breaker (threshold 3) OPEN, and a call on an uncached key made
\* within timeout is rejected with no admission and no network attempt.
C5_ScenarioD ==
    [][ /\ (client = "gateway" /\ GaveUp') => cb'.failures = cb.failures + 1
        /\ (cb'.failures # cb.failures) => (GaveUp' \/ last'.via = "network")
        /\ (GaveUp' /\ consec' >= failureThreshold) => cb'.state = "OPEN"
        /\ (consec >= failureThreshold /\ WithinCooldown /\ CallMissed')
              => /\ last'.kind = "error"
                 /\ last'.error.name = "RetryableError"
                 /\ requests' = requests
                 /\ admitted' = admitted
                 /\ fetched' = fetched ]_vars

\* three failed calls, one failure each, and the fourth call rejected
C5_Witness ==
    /\ last.via = "rejected"
    /\ last.key \notin cacheKeys(requestCache)
    /\ consec = failureThreshold
    /\ cb.failures = failureThreshold
    /\ Len(fetched) > 0

\* the step began a gateway call
CallBegan == CallMissed \/ last.via = "hit"

\* C6: a gateway call that finds an unexpired entry under its key returns
\* the cached value and leaves the rate limiter, the breaker and the network
\* untouched, also when the breaker is OPEN.
C6_HitBypasses ==
    [][ \A i \in DOMAIN requestCache :
          (/\ CallBegan'
           /\ last'.key = requestCache[i].key
           /\ now - requestCache[i].timestamp < CACHE_DURATION)
          => /\ last'.via = "hit"
             /\ last'.kind = "value"
             /\ last'.data = requestCache[i].data
             /\ UNCHANGED <<requests, cb, admitted, fetched, inflight>> ]_vars

\* a hit while the breaker is OPEN
C6_Witness ==
    /\ last.via = "hit"
    /\ cb.state = "OPEN"
    /\ WithinCooldown

\* C7: a call whose attempts fail retryably and then succeed returns the
\* value of the successful attempt; onRetry has fired once per failed
\* attempt, maxAttempts - 1 times when the last attempt succeeds.  At the
\* gateway the value is then in the cache and the breaker has no failure.
C7_RetryThenSuccess ==
    (last.kind = "value" /\ last.via \in {"network", "returned"}) =>
        /\ last.invoked = last.attempt
        /\ last.attempt <= last.policy.maxAttempts
        /\ last.policy.hook # "none" => last.onRetry = last.attempt - 1
        /\ last.data.key = last.key
        /\ last.via = "network" =>
              /\ getCachedResponse(requestCache, last.key, now).data = last.data
              /\ cb.failures = 0
              /\ cb.state = "CLOSED"

\* scenario C: the third attempt of a gateway call succeeds
C7_Witness ==
    /\ last.via = "network"
    /\ last.attempt = last.policy.maxAttempts
    /\ last.onRetry = 2

\* C8: an operation that always fails retryably is invoked exactly
\* maxAttempts times, and withRetry then raises the error object of the last
\* attempt.
C8_ExhaustedRaisesLast ==
    /\ \A c \in InFlight : c.invoked <= c.policy.maxAttempts
    /\ (GaveUp /\ retryCondition(last.policy.cond, last.raised)) =>
          /\ last.invoked = last.policy.maxAttempts
          /\ last.error = last.raised
          /\ last.error.oid = last.policy.maxAttempts

\* maxAttempts > 1 attempts were made and the last error was raised
C8_Witness ==
    /\ GaveUp
    /\ retryCondition(last.policy.cond, last.raised)
    /\ last.invoked = last.policy.maxAttempts
    /\ last.invoked > 1

\* C9: an error the retry predicate rejects is re-raised at once and
\* unchanged: no further invocation, no onRetry call and no backoff wait.
C9_NonRetryableImmediate ==
    /\ \A c \in InFlight :
          c.lastError # NoError => retryCondition(c.policy.cond, c.lastError)
    /\ (GaveUp /\ ~retryCondition(last.policy.cond, last.raised)) =>
          /\ last.error = last.raised
          /\ last.invoked = last.error.oid
          /\ last.onRetry = IF last.policy.hook = "none" THEN 0 ELSE last.invoked - 1

\* a non-retryable error on the first of several attempts
C9_Witness ==
    /\ GaveUp
    /\ ~retryCondition(last.policy.cond, last.raised)
    /\ last.invoked = 1
    /\ last.onRetry = 0
    /\ last.policy.maxAttempts > 1

\* C10: getCachedResponse right after setCachedResponse(key, v) returns v;
\* whatever getCachedResponse returns is at most CACHE_DURATION old; an entry
\* that is CACHE_DURATION old is not found.
C10_CacheGet ==
    /\ last.via = "network" =>
          getCachedResponse(requestCache, last.key, now).data = last.data
    /\ \A k \in Keys :
          LET r == getCachedResponse(requestCache, k, now)
              i == cacheIndex(requestCache, k)
          IN  /\ Truthy(r.data) =>
                    /\ i # 0
                    /\ r.data = requestCache[i].data
                    /\ now - requestCache[i].timestamp <= CACHE_DURATION
              /\ (i # 0 /\ now - requestCache[i].timestamp >= CACHE_DURATION) =>
                    r.data = NoData

\* an entry has reached CACHE_DURATION and is no longer found
C10_Witness ==
    \E i \in DOMAIN requestCache :
        /\ now - requestCache[i].timestamp >= CACHE_DURATION
        /\ getCachedResponse(requestCache, requestCache[i].key, now).data = NoData

\* the entry a put of last.key has just stored
NewEntry == [key |-> last.key, data |-> last.data, timestamp |-> now]

\* C11: whatever setCachedResponse and getCachedResponse calls are made,
\* the map holds at most cacheLimit entries; a setCachedResponse of a new key
\* into a full map evicts exactly one entry, one with the oldest timestamp,
\* and keeps the new entry and all the others.
C11_BoundedEviction ==
    /\ Len(requestCache) <= cacheLimit
    /\ (client = "cache" /\ last.via = "put" /\ ~last.known /\ last.size = cacheLimit)
       => /\ Cardinality(last.removed) = 1
          /\ \A old \in last.removed :
                \A e \in Entries(requestCache) \cup last.removed :
                    old.timestamp <= e.timestamp
          /\ NewEntry \in Entries(requestCache)
          /\ Len(requestCache) = cacheLimit

\* a new key was put into a full map whose entries differed in age
C11_Witness ==
    /\ client = "cache"
    /\ last.via = "put"
    /\ ~last.known
    /\ last.size = cacheLimit
    /\ \E old \in last.removed :
          \E e \in Entries(requestCache) \ {NewEntry} : old.timestamp < e.timestamp

\* C12: only successful results are cached.  An entry appears or changes
\* only in the step in which a network call for its key completes
\* successfully, and it holds the payload of that call with the time of that
\* step; a failed attempt, a call that gives up and a rejected call insert
\* and overwrite nothing.  A call that misses and whose network call
\* succeeds returns the payload and leaves it in the cache under its key.
C12_OnlySuccessCached ==
    [][ /\ \A e \in Entries(requestCache') \ Entries(requestCache) :
              /\ last'.via = "network"
              /\ e = [key |-> last'.key, data |-> last'.data, timestamp |-> now']
              /\ e.data.key = e.key
        /\ last'.via = "network" =>
              /\ last'.kind = "value"
              /\ last'.invoked > 0
              /\ \E e \in Entries(requestCache') :
                    e.key = last'.key /\ e.data = last'.data ]_vars

\* scenario A: a first call on an empty cache succeeds at its first attempt
C12_Witness ==
    /\ last.via = "network"
    /\ last.attempt = 1
    /\ Entries(requestCache) = {[key |-> last.key, data |-> last.data, timestamp |-> now]}
    /\ Len(admitted) = 1

\* C13: with the clock advancing and finitely many callers, every
\* waitForPermission() call returns: from some time on no caller is
\* suspended.  waitForPermission never raises, a call ends only by being
\* admitted.
C13_EventuallyAdmitted ==
    /\ <>[](inflight = EmptyBag)
    /\ [](last.kind # "error")

\* a caller that found the window full again when its timer fired, slept a
\* second time and was admitted
C13_Witness ==
    /\ client = "limiter"
    /\ last.via = "admitted"
    /\ last.sleeps = 2

\* the step ended a gateway call whose execute() threw
ExecuteThrew == client = "gateway" /\ (GaveUp \/ last.via = "rejected" \/ last.via = "fallback")

\* C14: execute() re-raises the error of an operation it invoked, in CLOSED
\* and as a HALF_OPEN trial, as the same object, and raises the circuit-open
\* error only when it rejects a call while OPEN; the circuit-open error is
\* received only when the operation was not invoked.
C14_ErrorPassThrough ==
    ExecuteThrew =>
        /\ last.invoked > 0 =>
              /\ last.error = last.raised
              /\ last.error.oid = last.attempt
              /\ last.error # CircuitOpenError(0)
        /\ last.invoked = 0 =>
              /\ last.error = CircuitOpenError(0)
              /\ cb.state = "OPEN"
              /\ WithinCooldown
        /\ last.error.name = "RetryableError" => last.invoked = 0

\* a HALF_OPEN trial fails with a 404 and the caller receives that error
C14_Witness ==
    /\ client = "gateway"
    /\ last.via = "failed"
    /\ last.trial = "first"
    /\ last.error = HttpError(404, 1)
    /\ cb.state = "OPEN"

\* C15: the circuit-open error is non-retryable: the default predicate and
\* the api predicate reject it, so a retry executor with one of them that
\* receives it from its operation re-raises it and never waits to try again.
C15_CircuitOpenNotRetried ==
    \A c \in InFlight :
        (c.policy.cond \in {"default", "api"} /\ c.pc = "backoff")
            => c.lastError # CircuitOpenError(c.attempt)

C17_ObserversReadOnly ==
    [][ (GetRateLimitStatus \/ GetState)
          => UNCHANGED <<requests, requestCache, cb>> ]_vars

\* a step that leaves the limiter, the breaker, the cache and the network alone
NothingEngaged == UNCHANGED <<requests, cb, requestCache, admitted, fetched, inflight, consec>>

\* C18: getBookDetails with an empty or non-string id raises at once and
\* searchBooks with a blank query returns the empty result; neither touches
\* the limiter's timestamps, the breaker, the cache or the network.
C18_MalformedInput ==
    [][ /\ \A id \in Values :
              ((id.type # "string" \/ id.text = <<>>) /\ getBookDetails(id))
              => /\ last'.kind = "error"
                 /\ last'.error = InvalidIdError
                 /\ NothingEngaged
        /\ \A q \in Values :
              (q.type = "string" /\ (\A i \in DOMAIN q.text : q.text[i] = " ") /\ searchBooks(q))
              => /\ last'.kind = "value"
                 /\ last'.data = EmptyResult
                 /\ NothingEngaged ]_vars

\* an invalid id is refused while a trial call is suspended, the limiter
\* holds a timestamp and the cache an entry
C18_Witness ==
    /\ last.via = "invalid"
    /\ Len(requests) > 0
    /\ Len(requestCache) > 0
    /\ cb.state = "HALF_OPEN"
    /\ inflight # EmptyBag

\* the classes of the retry policy, read off an error's fields
NetworkLevel(e) ==
    \/ e.code \in {"NETWORK_ERROR", "ECONNRESET", "ECONNREFUSED"}
    \/ e.msg \cap {"network", "connection", "Connection"} # {}

TimedOut(e) == e.code = "TIMEOUT" \/ "timeout" \in e.msg

ServerError(e) == e.status \in 500..599

RateLimited(e) == e.status = 429

ClientError(e) == e.status \in 400..499 /\ e.status # 429

AuthFailure(e) == e.msg \cap {"auth", "unauthorized"} # {}

RetryableClass(e) == NetworkLevel(e) \/ TimedOut(e) \/ ServerError(e) \/ RateLimited(e)

C20_DatabaseNarrower ==
    last.via = "classified" => (last.database => last.default)

\* the formula of the contract for the wait before retry k, in milliseconds
ContractDelay(policy, k) ==
    Min((policy.baseDelay * Pow(policy.factor[1], k - 1)) \div Pow(policy.factor[2], k - 1),
        policy.maxDelay)

\* C21: the wait after failed attempt k (k = 1..maxAttempts-1) is d + j with
\* d = min(baseDelay * backoffFactor^(k-1), maxDelay) and 0 <= j <= d/10; d
\* never decreases from one wait to the next and never exceeds maxDelay; the
\* api policy waits 1000 ms and then 2000 ms before jitter.
C21_BackoffDelay ==
    (client = "delay" /\ last.via = "wait") =>
        LET policy == last.policy
            k == last.attempt
            d == ContractDelay(policy, k)
            j == last.delay - d
        IN  /\ k \in 1..(policy.maxAttempts - 1)
            /\ d < policy.maxDelay =>
                  (policy.baseDelay * Pow(policy.factor[1], k - 1)) % Pow(policy.factor[2], k - 1) = 0
            /\ last.exponentialDelay = d
            /\ 0 <= j
            /\ 10 * j <= d
            /\ d <= policy.maxDelay
            /\ last.before <= d
            /\ policy = Millis(ApiPolicy([hook |-> "none"])) =>
                  d = IF k = 1 THEN 1000 ELSE 2000

\* the second wait of the api policy, with jitter: more than 2000 ms
C21_Witness ==
    /\ client = "delay"
    /\ last.via = "wait"
    /\ last.policy = Millis(ApiPolicy([hook |-> "none"]))
    /\ last.attempt = 2
    /\ last.before = 1000
    /\ last.delay > 2000

\* C22: the cache is an LRU cache: an insertion that overflows the capacity
\* evicts the least recently used entry, so an entry that a get has read
\* more recently than another entry is never evicted before that other
\* entry.  The entry a get has just returned is the most recently used one:
\* the put of another key in the next step does not evict it.
C22_LeastRecentlyUsed ==
    [][ (client = "cache" /\ last.via = "get" /\ Truthy(last.data)
            /\ last'.via = "put" /\ last'.key # last.key)
        => \A old \in last'.removed : old.key # last.key ]_vars

\* a string without its leading and trailing blanks, cut after limit characters
NonBlank(t) == {i \in DOMAIN t : t[i] # " "}

Normalized(t, limit) ==
    IF NonBlank(t) = {} THEN <<>>
    ELSE LET first == CHOOSE i \in NonBlank(t) : \A j \in NonBlank(t) : i <= j
             final == CHOOSE i \in NonBlank(t) : \A j \in NonBlank(t) : i >= j
         IN  [i \in 1..Min(final - first + 1, limit) |-> t[first + i - 1]]

\* an integer brought into 1..countLimit
Clamped(n) == IF n < 1 THEN 1 ELSE IF n > countLimit THEN countLimit ELSE n

\* the normalized parameters of the call a KeyEvent describes
NormalizedParameters(e) ==
    IF e.op = "search" THEN <<Normalized(e.input, queryLimit), Clamped(e.count)>>
    ELSE <<Normalized(e.input, idLimit)>>

\* C23: the cache key is a function of the operation and the normalized
\* parameters.  The count in the key and in the url is the maxResults
\* argument brought into 1..countLimit, the query is trimmed and cut to
\* queryLimit characters, the id trimmed and cut to idLimit characters;
\* input beyond the limits is clamped and the call goes on to the request;
\* two calls with equal normalized parameters use the same key.
C23_CacheKey ==
    [][ client = "keys" =>
          /\ (last'.op = "search" /\ NonBlank(last'.input) # {}) =>
                /\ last'.via = "request"
                /\ last'.cacheKey = <<"search", Normalized(last'.input, queryLimit),
                                      Clamped(last'.count)>>
                /\ last'.cacheKey[3] \in 1..countLimit
                /\ Len(last'.cacheKey[2]) <= queryLimit
                /\ last'.url[2] = last'.cacheKey[2]
                /\ last'.url[4] = last'.cacheKey[3]
          /\ (last'.op = "book" /\ Len(last'.input) > 0) =>
                /\ last'.via = "request"
                /\ last'.cacheKey = <<"book", Normalized(last'.input, idLimit)>>
                /\ Len(last'.cacheKey[2]) <= idLimit
                /\ last'.url[2] = last'.cacheKey[2]
          /\ (/\ last.via = "request"
              /\ last'.via = "request"
              /\ last.op = last'.op
              /\ NormalizedParameters(last) = NormalizedParameters(last'))
             => last'.cacheKey = last.cacheKey ]_vars

\* a search with a count below the range and a query that has a blank in
\* front and is longer than the cap
C23_Witness ==
    /\ client = "keys"
    /\ last.via = "request"
    /\ last.op = "search"
    /\ last.count < 1
    /\ last.cacheKey[3] = 1
    /\ Len(last.input) > queryLimit
    /\ Head(last.input) = " "
    /\ Len(last.cacheKey[2]) = queryLimit

\* C24: with the breaker CLOSED, an execute() that completes successfully
\* sets failures to 0 and leaves it CLOSED, and one that fails adds exactly 1
\* to failures and sets lastFailureTime to now; the breaker moves from
\* CLOSED to OPEN only in a failure that is the failureThreshold-th (or a
\* later one) since the last successful completion.
C24_ClosedCounting ==
    [][ (client = "gateway" /\ cb.state = "CLOSED") =>
          /\ last'.via = "network" =>
                cb' = [cb EXCEPT !.failures = 0]
          /\ GaveUp' =>
                /\ cb'.failures = cb.failures + 1
                /\ cb'.lastFailureTime = now'
                /\ cb'.state = IF consec' >= failureThreshold THEN "OPEN" ELSE "CLOSED"
          /\ cb'.state = "OPEN" =>
                /\ GaveUp'
                /\ consec' >= failureThreshold
                /\ cb'.failures = consec'
          /\ cb'.state \in {"CLOSED", "OPEN"} ]_vars

\* a success reset the count and the third failure after it opened the breaker
C24_Witness ==
    /\ client = "gateway"
    /\ last.via = "failed"
    /\ cb.state = "OPEN"
    /\ cb.failures = failureThreshold
    /\ cb.lastFailureTime = now
    /\ \E i \in DOMAIN requestCache : requestCache[i].timestamp < now

\* the step ended a gateway call that execute() rejected
Rejected == last.via = "rejected" \/ (last.via = "fallback" /\ last.invoked = 0)

\* C25: an execute() call rejected while the breaker is OPEN leaves state,
\* failures and lastFailureTime as they were and invokes nothing, so
\* rejections do not extend the cooldown: a call that reaches execute() when
\* the breaker is OPEN and now - lastFailureTime >= timeout is admitted as a
\* trial, whatever was rejected before.
C25_RejectionsKeepCooldown ==
    [][ /\ Rejected' =>
              /\ cb.state = "OPEN"
              /\ WithinCooldown
              /\ cb' = cb
              /\ UNCHANGED <<requests, inflight, admitted, fetched>>
        /\ (cb.state = "OPEN" /\ ~WithinCooldown /\ CallMissed') =>
              /\ ~Rejected'
              /\ last'.via = "started"
              /\ last'.invoked = 1
              /\ cb' = [cb EXCEPT !.state = "HALF_OPEN"] ]_vars

\* a call is rejected at the last tick of the cooldown
C25_Witness ==
    /\ Rejected
    /\ cb.state = "OPEN"
    /\ now - cb.lastFailureTime = timeout - 1
    /\ now > cb.lastFailureTime

\* C26: getCachedResponse on a key whose entry is present but expired
\* removes that entry and returns not-found; a getCachedResponse changes no
\* entry stored under another key, and the entry it returns stays as it
\* was, timestamp included.
C26_GetFrame ==
    [][ \A k \in {last'.key} \cap CacheKeys :
          (last'.via = "get" /\ CacheGet(k)) =>
            /\ \A e \in Entries(requestCache) :
                  /\ (e.key = k /\ now - e.timestamp >= CACHE_DURATION) =>
                        /\ last'.data = NoData
                        /\ k \notin cacheKeys(requestCache')
                  /\ e.key # k => e \in Entries(requestCache')
                  /\ (e.key = k /\ Truthy(last'.data)) =>
                        /\ last'.data = e.data
                        /\ e \in Entries(requestCache')
            /\ Entries(requestCache') \subseteq Entries(requestCache)
            /\ Truthy(last'.data) => requestCache' = requestCache ]_vars

\* a get on an expired entry removed it and left the entry of another key
C26_Witness ==
    /\ client = "cache"
    /\ last.via = "get"
    /\ last.known
    /\ last.data = NoData
    /\ \E old \in last.removed : old.key = last.key /\ now - old.timestamp >= CACHE_DURATION
    /\ Len(requestCache) > 0

\* C27: the onRetry hook does not alter the control flow of withRetry:
\* whatever the hook does, including raising an error, withRetry waits and
\* makes the next attempt, and ends as it does without a hook: it throws
\* only the error of its operation, after maxAttempts invocations or at an
\* error the predicate refuses.
C27_HookKeepsControlFlow ==
    (client = "withRetry" /\ last.via = "threw") =>
        /\ last.error = last.raised
        /\ \/ last.invoked = last.policy.maxAttempts
           \/ ~retryCondition(last.policy.cond, last.raised)

\* C28: once OPEN, the breaker leaves OPEN only for HALF_OPEN, in a call
\* made when timeout has elapsed since lastFailureTime: in no interleaving,
\* calls already in flight when it opened included, does it move from OPEN
\* to CLOSED or become CLOSED within the cooldown.
C28_OpenLeavesByTrial ==
    [][ cb.state = "OPEN" =>
          \/ cb'.state = "OPEN"
          \/ /\ cb'.state = "HALF_OPEN"
             /\ ~WithinCooldown
             /\ last'.via = "started" ]_vars

\* the fetch() calls started in the window (t - timeWindow, t]
FetchedIn(t) == {i \in DOMAIN fetched : fetched[i] > t - timeWindow /\ fetched[i] <= t}

\* C29: every fetch() of the gateway, the first attempt of a call and each
\* retry alike, follows an admission of its own, granted in the same step
\* to a limiter that held fewer than maxRequests timestamps of the window;
\* in every interleaving no trailing window holds more than maxRequests
\* started fetches.
C29_EveryFetchAdmitted ==
    [][ /\ (now' = now /\ fetched' # fetched) =>
              /\ fetched' = Append(fetched, now)
              /\ admitted' = Append(admitted, now)
              /\ Len(filterRequests(requests, now)) < maxRequests
              /\ requests' = Append(filterRequests(requests, now), now)
        /\ fetched' = admitted'
        /\ \A t \in 0..now' : Cardinality(FetchedIn(t)') <= maxRequests ]_vars

\* the retry of a call had to wait for the limiter and fills the window
C29_Witness ==
    /\ \E c \in InFlight : c.pc = "fetching" /\ c.attempt >= 2 /\ c.waited
    /\ Cardinality(FetchedIn(now)) = maxRequests
    /\ fetched[Len(fetched)] = now

\* C30: in every reachable state, under any interleaving of concurrent
\* execute() calls, the breaker is CLOSED exactly when failures is below
\* failureThreshold (OPEN or HALF_OPEN exactly when it has reached it), and
\* failures is never negative.
C30_StateMatchesCount ==
    /\ (cb.state = "CLOSED") <=> (cb.failures < failureThreshold)
    /\ (cb.state \in {"OPEN", "HALF_OPEN"}) <=> (cb.failures >= failureThreshold)
    /\ cb.failures >= 0

\* a call admitted while the breaker was CLOSED fails after another call
\* has opened it: the count passes the threshold
C30_Witness ==
    /\ client = "gateway"
    /\ last.via = "failed"
    /\ last.trial = "no"
    /\ cb.state = "OPEN"
    /\ cb.failures = failureThreshold + 1

====
